---- MODULE Spec2Model ----
(***************************************************************************)
(* Model of scs_gin_adapter (src/scs_gin_adapter.go): the GinAdapter       *)
(* middleware LoadAndSave and its accessors, each of which calls into the  *)
(* scs session manager and then commits and writes the session cookie from *)
(* inside the handler.                                                     *)
(*                                                                         *)
(* The session manager (github.com/alexedwards/scs/v2) and its store are   *)
(* collaborators: the sm* operators model their contract.  Store errors,   *)
(* token-generation errors and the cookie a client presents are inputs.    *)
(***************************************************************************)
EXTENDS Integers, Sequences, FiniteSets, TLC

\* ------------------------------------------------------------------ bounds

\* Accessor calls made by all handlers together.
MaxCalls == 3
\* Clock ticks during the run.
MaxTicks == 1
\* Accessor calls made by the handlers of simultaneous requests together.
MaxConcCalls == 2

\* ------------------------------------------------------------ constants

\* sessionManager.Lifetime, in hours (README: 24 * time.Hour).
Lifetime == 24
\* time.Time{}: the zero time.
ZeroTime == 0

\* SessionManager.Cookie.Persist ("the default is true").
Persist == TRUE

\* The requests served by one GinAdapter.
Requests == {"r1", "r2"}
\* Keys and values handlers use.
Keys == {"foo"}
Strings == {"bar", "baz"}
RememberKey == "__rememberMe"
AllKeys == Keys \cup {RememberKey}

\* A token is a string: the empty string, or a generated one.
EmptyToken == <<>>
Token(n) == <<n>>

\* Go values held in the session (interface{}): nil, a string, a bool.
Nil == [t |-> "nil", v |-> ""]
StringVal(s) == [t |-> "string", v |-> s]
BoolVal(b) == [t |-> "bool", v |-> IF b THEN "true" ELSE "false"]

\* Go error values; NoError is nil.
NoError == "nil"
StoreError == "store error"
TokenError == "token generation error"

NoValues == [k \in AllKeys |-> Nil]
\* The request's context before Load: no session data in it.
NoSession == [status |-> "Unloaded", token |-> EmptyToken, deadline |-> ZeroTime,
              values |-> NoValues]

VARIABLES
    store,      \* session store: token -> [values, deadline]
    nextTok,    \* source of generated tokens
    now,        \* the clock
    ncalls,     \* accessor calls made so far (bounded by MaxCalls)
    phase,      \* per request: "idle", "handler", "failed", "done"
    ctx,        \* per request: the session data in ginCtx.Request.Context()
    header,     \* per request: response headers [SetCookie, Vary]
    errLog,     \* per request: errors passed to sm.ErrorFunc
    nextCalls,  \* per request: number of ginCtx.Next() calls
    loadCalls,  \* per request: number of sm.Load calls
    handlerCalls, \* per request: number of times gin ran the route handler
    reqCookie,  \* per request: the session cookie of the request, if any
    last,       \* per request: the last adapter call, its calls into sm and result
    hist,       \* per request: the tokens destroyed and the last successful Commit
    ga          \* the adapter: its session manager reference

vars == <<store, nextTok, now, ncalls, phase, ctx, header, errLog,
          nextCalls, loadCalls, handlerCalls, reqCookie, last, hist, ga>>

\* ------------------------------------------------- the session manager

\* One call into the session manager, as recorded in a trace.
Call(name, tok, exp, err) == [call |-> name, tok |-> tok, exp |-> exp, err |-> err]

\* The world an accessor acts on: the request's session data and response
\* headers, the store, the token source, and what the accessor has done so far.
World(r) ==
    [sd |-> ctx[r], store |-> store, next |-> nextTok, hdr |-> header[r],
     now |-> now,
     tok |-> EmptyToken, exp |-> ZeroTime, err |-> NoError, val |-> Nil,
     ret |-> NoError, trace |-> <<>>]

Log(w, c) == [w EXCEPT !.trace = Append(w.trace, c)]

StoreDelete(st, t) == [x \in DOMAIN st \ {t} |-> st[x]]
StorePut(st, t, e) == [x \in DOMAIN st \cup {t} |-> IF x = t THEN e ELSE st[x]]

\* newSessionData(lifetime)
newSessionData(t) ==
    [status |-> "Unmodified", token |-> EmptyToken, deadline |-> t + Lifetime,
     values |-> NoValues]

\* sm.Load(ctx, token): an empty token or a token the store does not hold gives
\* a new session; a store or decode error (ok = FALSE) fails the load.
smLoad(st, t, token, ok) ==
    IF token = EmptyToken THEN [sd |-> newSessionData(t), err |-> NoError]
    ELSE IF ~ok THEN [sd |-> NoSession, err |-> StoreError]
    ELSE IF token \notin DOMAIN st THEN [sd |-> newSessionData(t), err |-> NoError]
    ELSE [sd |-> [status |-> "Unmodified", token |-> token,
                  deadline |-> st[token].deadline, values |-> st[token].values],
          err |-> NoError]

\* sm.Put(ctx, key, val)
smPut(w, key, val) ==
    Log([w EXCEPT !.sd.values[key] = val, !.sd.status = "Modified"],
        Call("Put", EmptyToken, ZeroTime, NoError))

\* sm.Get(ctx, key)
smGet(w, key) ==
    Log([w EXCEPT !.val = w.sd.values[key]],
        Call("Get", EmptyToken, ZeroTime, NoError))

\* sm.GetString(ctx, key): "" unless the value is a string
smGetString(w, key) ==
    Log([w EXCEPT !.val = IF w.sd.values[key].t = "string"
                          THEN w.sd.values[key] ELSE StringVal("")],
        Call("GetString", EmptyToken, ZeroTime, NoError))

\* sm.Remove(ctx, key): a no-op when the key is absent
smRemove(w, key) ==
    Log(IF w.sd.values[key] = Nil THEN w
        ELSE [w EXCEPT !.sd.values[key] = Nil, !.sd.status = "Modified"],
        Call("Remove", EmptyToken, ZeroTime, NoError))

\* sm.RememberMe(ctx, val)
smRememberMe(w, val) ==
    Log([w EXCEPT !.sd.values[RememberKey] = BoolVal(val), !.sd.status = "Modified"],
        Call("RememberMe", EmptyToken, ZeroTime, NoError))

\* sm.Destroy(ctx): deletes the token's store entry; on success the session
\* data is reset (status Destroyed, no token, no values).  The trace records
\* the token whose entry was deleted.
smDestroy(w, ok) ==
    IF ~ok THEN Log([w EXCEPT !.err = StoreError],
                    Call("Destroy", EmptyToken, ZeroTime, StoreError))
    ELSE Log([w EXCEPT !.store = StoreDelete(w.store, w.sd.token),
                       !.sd = [status |-> "Destroyed", token |-> EmptyToken,
                               deadline |-> w.now + Lifetime, values |-> NoValues],
                       !.err = NoError],
             Call("Destroy", w.sd.token, ZeroTime, NoError))

\* sm.RenewToken(ctx): deletes the old token's store entry (delOk), generates
\* a new token (genOk), resets the deadline, keeps the values.  The trace
\* records the new token and deadline.
smRenewToken(w, delOk, genOk) ==
    IF w.sd.token # EmptyToken /\ ~delOk
    THEN Log([w EXCEPT !.err = StoreError],
             Call("RenewToken", EmptyToken, ZeroTime, StoreError))
    ELSE IF ~genOk
    THEN Log([w EXCEPT !.store = StoreDelete(w.store, w.sd.token),
                       !.err = TokenError],
             Call("RenewToken", EmptyToken, ZeroTime, TokenError))
    ELSE Log([w EXCEPT !.store = StoreDelete(w.store, w.sd.token),
                       !.sd.token = Token(w.next),
                       !.next = w.next + 1,
                       !.sd.deadline = w.now + Lifetime,
                       !.sd.status = "Modified",
                       !.err = NoError],
             Call("RenewToken", Token(w.next), w.now + Lifetime, NoError))

\* sm.Commit(ctx): gives a session without a token a new one, saves the
\* session data under the token and returns (token, expiry, nil); when the
\* store fails it returns ("", time.Time{}, err).
smCommit(w, ok) ==
    LET fresh == w.sd.token = EmptyToken
        sd1 == IF fresh THEN [w.sd EXCEPT !.token = Token(w.next)] ELSE w.sd
        n1 == IF fresh THEN w.next + 1 ELSE w.next
    IN IF ok
       THEN Log([w EXCEPT !.sd = sd1, !.next = n1,
                          !.store = StorePut(w.store, sd1.token,
                                [values |-> sd1.values, deadline |-> sd1.deadline]),
                          !.tok = sd1.token, !.exp = sd1.deadline, !.err = NoError],
                Call("Commit", sd1.token, sd1.deadline, NoError))
       ELSE Log([w EXCEPT !.sd = sd1, !.next = n1,
                          !.tok = EmptyToken, !.exp = ZeroTime, !.err = StoreError],
                Call("Commit", EmptyToken, ZeroTime, StoreError))

\* The Set-Cookie header value WriteSessionCookie builds.
Cookie(w, token, expiry) ==
    [value |-> token, expiry |-> expiry,
     persistent |-> expiry # ZeroTime
                    /\ (Persist \/ w.sd.values[RememberKey] = BoolVal(TRUE))]

\* sm.WriteSessionCookie(ctx, w, token, expiry): w.Header().Add("Set-Cookie", ...)
smWriteSessionCookie(w, token, expiry) ==
    Log([w EXCEPT !.hdr.SetCookie = Append(w.hdr.SetCookie, Cookie(w, token, expiry))],
        Call("WriteSessionCookie", token, expiry, NoError))

\* ---------------------------------------------------------- the adapter

\* req.Cookie(ga.sm.Cookie.Name): a cookie or http.ErrNoCookie
NoCookie == [present |-> FALSE, value |-> EmptyToken]
SessionCookie(t) == [present |-> TRUE, value |-> t]

\* LoadAndSave without ginCtx.Request = sessionReq: the handler runs on the
\* request's original context.
LoadAndSave_KeepsRequest(st, t, cookie, ok) ==
    LET token == IF cookie.present THEN cookie.value ELSE EmptyToken
        res == smLoad(st, t, token, ok)
    IN IF res.err # NoError
       THEN [phase |-> "failed", sd |-> NoSession, vary |-> <<>>,
             errors |-> <<res.err>>, next |-> 0, loads |-> 1]
       ELSE [phase |-> "handler", sd |-> NoSession, vary |-> <<"Cookie">>,
             errors |-> <<>>, next |-> 1, loads |-> 1]

\* GinAdapter.LoadAndSave up to its call of ginCtx.Next() or its return:
\* the request's new context, the Vary headers added, the errors passed to
\* sm.ErrorFunc, the calls of sm.Load and of ginCtx.Next().
LoadAndSave(st, t, cookie, ok) ==
    LET token == IF cookie.present THEN cookie.value ELSE EmptyToken
        res == smLoad(st, t, token, ok)
    IN IF res.err # NoError
       THEN [phase |-> "failed", sd |-> NoSession, vary |-> <<>>,
             errors |-> <<res.err>>, next |-> 0, loads |-> 1]
       ELSE [phase |-> "handler", sd |-> res.sd, vary |-> <<"Cookie">>,
             errors |-> <<>>, next |-> 1, loads |-> 1]

\* Put with the cookie written before the commit, from the token the session
\* had before it.
Put_CookieBeforeCommit(w, key, val, ok) ==
    LET w1 == smPut(w, key, val)
        w2 == smWriteSessionCookie(w1, w1.sd.token, w1.sd.deadline)
    IN smCommit(w2, ok)

\* GinAdapter.Put
Put(w, key, val, ok) ==
    LET w1 == smPut(w, key, val)
        w2 == smCommit(w1, ok)
    IN smWriteSessionCookie(w2, w2.tok, w2.exp)

\* Get returning nil when its commit failed.
Get_NilOnCommitError(w, key, ok) ==
    LET w1 == smGet(w, key)
        w2 == smCommit(w1, ok)
    IN IF w2.err # NoError THEN [w2 EXCEPT !.val = Nil] ELSE w2

\* GinAdapter.Get: commits, writes no cookie
Get(w, key, ok) ==
    LET w1 == smGet(w, key)
    IN smCommit(w1, ok)

\* Remove doing nothing more when the key is absent: no commit, no cookie.
Remove_SkipsWhenAbsent(w, key, ok) ==
    LET w1 == smRemove(w, key)
        w2 == smCommit(w1, ok)
    IN IF w.sd.values[key] = Nil THEN w1
       ELSE smWriteSessionCookie(w2, w2.tok, w2.exp)

\* GinAdapter.Remove
Remove(w, key, ok) ==
    LET w1 == smRemove(w, key)
        w2 == smCommit(w1, ok)
    IN smWriteSessionCookie(w2, w2.tok, w2.exp)

\* Destroy writing the clearing cookie whether or not sm.Destroy failed.
Destroy_ClearsOnError(w, ok) ==
    LET w1 == smDestroy(w, ok)
    IN [smWriteSessionCookie(w1, EmptyToken, ZeroTime) EXCEPT !.ret = w1.err]

\* Destroy writing the cookie of the session it has just destroyed.
Destroy_StaleCookie(w, ok) ==
    LET w1 == smDestroy(w, ok)
    IN IF w1.err # NoError THEN [w1 EXCEPT !.ret = w1.err]
       ELSE [smWriteSessionCookie(w1, w.sd.token, w.sd.deadline) EXCEPT !.ret = NoError]

\* Destroy ending like the other accessors: commit, then the commit's cookie.
Destroy_Commits(w, ok) ==
    LET w1 == smDestroy(w, ok)
    IN IF w1.err # NoError THEN [w1 EXCEPT !.ret = w1.err]
       ELSE LET w2 == smCommit(w1, TRUE)
            IN [smWriteSessionCookie(w2, w2.tok, w2.exp) EXCEPT !.ret = NoError]

\* GinAdapter.Destroy
Destroy(w, ok) ==
    LET w1 == smDestroy(w, ok)
    IN IF w1.err # NoError THEN [w1 EXCEPT !.ret = w1.err]
       ELSE [smWriteSessionCookie(w1, EmptyToken, ZeroTime) EXCEPT !.ret = NoError]

\* RenewToken without the call of sm.RenewToken.
RenewToken_NoRenew(w, delOk, genOk, ok) ==
    LET w1 == Log(w, Call("RenewToken", w.sd.token, w.sd.deadline, NoError))
        w2 == smCommit(w1, ok)
    IN [smWriteSessionCookie(w2, w2.tok, w2.exp) EXCEPT !.ret = NoError]

\* RenewToken returning the error of its commit.
RenewToken_ReportsCommit(w, delOk, genOk, ok) ==
    LET w1 == smRenewToken(w, delOk, genOk)
    IN IF w1.err # NoError THEN [w1 EXCEPT !.ret = w1.err]
       ELSE LET w2 == smCommit(w1, ok)
            IN [smWriteSessionCookie(w2, w2.tok, w2.exp) EXCEPT !.ret = w2.err]

\* GinAdapter.RenewToken
RenewToken(w, delOk, genOk, ok) ==
    LET w1 == smRenewToken(w, delOk, genOk)
    IN IF w1.err # NoError THEN [w1 EXCEPT !.ret = w1.err]
       ELSE LET w2 == smCommit(w1, ok)
            IN [smWriteSessionCookie(w2, w2.tok, w2.exp) EXCEPT !.ret = NoError]

\* RememberMe writing the cookie only when its commit succeeded.
RememberMe_NoCookieOnError(w, val, ok) ==
    LET w1 == smRememberMe(w, val)
        w2 == smCommit(w1, ok)
    IN IF w2.err # NoError THEN w2
       ELSE smWriteSessionCookie(w2, w2.tok, w2.exp)

\* GinAdapter.RememberMe
RememberMe(w, val, ok) ==
    LET w1 == smRememberMe(w, val)
        w2 == smCommit(w1, ok)
    IN smWriteSessionCookie(w2, w2.tok, w2.exp)

\* GetString ending like Get: a commit and no cookie.
GetString_NoCookie(w, key, ok) ==
    LET w1 == smGetString(w, key)
    IN smCommit(w1, ok)

\* GinAdapter.GetString
GetString(w, key, ok) ==
    LET w1 == smGetString(w, key)
        w2 == smCommit(w1, ok)
    IN smWriteSessionCookie(w2, w2.tok, w2.exp)

\* ------------------------------------------------------------- actions

\* What a request remembers of its accessor calls: the tokens of the sessions
\* a successful Destroy deleted, the last successful Commit, the last Put
\* whose key no later call (other than RenewToken and the getters) could have
\* touched, and whether a call into the session manager has failed.
NoCommit == Call("none", EmptyToken, ZeroTime, NoError)
NoPut == [key |-> "", val |-> Nil]
NoHistory == [destroyed |-> {}, commit |-> NoCommit, put |-> NoPut, failed |-> FALSE]

RECURSIVE Calls(_, _)
Calls(h, trace) ==
    IF trace = <<>> THEN h
    ELSE LET c == Head(trace)
             h1 == IF c.call = "Destroy" /\ c.err = NoError
                   THEN [h EXCEPT !.destroyed = h.destroyed \cup {c.tok}]
                   ELSE IF c.call = "Commit" /\ c.err = NoError
                   THEN [h EXCEPT !.commit = c]
                   ELSE h
             h2 == [h1 EXCEPT !.failed = h.failed \/ c.err # NoError]
         IN Calls(h2, Tail(trace))

History(h, op, key, arg, trace) ==
    [Calls(h, trace) EXCEPT
        !.put = IF op = "Put" THEN [key |-> key, val |-> arg]
                ELSE IF op \in {"RenewToken", "Get", "GetString"} THEN h.put
                ELSE NoPut]

NoCall == [n |-> 0, op |-> "none", key |-> "", arg |-> Nil, trace |-> <<>>,
           ret |-> NoError, val |-> Nil, panic |-> FALSE]

Init ==
    /\ store = <<>>
    /\ nextTok = 1
    /\ now = 1
    /\ ncalls = 0
    /\ phase = [r \in Requests |-> "idle"]
    /\ ctx = [r \in Requests |-> NoSession]
    /\ header = [r \in Requests |-> [SetCookie |-> <<>>, Vary |-> <<>>]]
    /\ errLog = [r \in Requests |-> <<>>]
    /\ nextCalls = [r \in Requests |-> 0]
    /\ loadCalls = [r \in Requests |-> 0]
    /\ handlerCalls = [r \in Requests |-> 0]
    /\ reqCookie = [r \in Requests |-> NoCookie]
    /\ last = [r \in Requests |-> NoCall]
    /\ hist = [r \in Requests |-> NoHistory]
    /\ ga = [sm |-> "sessionManager"]

\* The cookies a client may present: none, an empty one, a token the session
\* manager never issued (Token(0)), or one it issued.
CookieInputs ==
    {NoCookie, SessionCookie(EmptyToken)}
        \cup {SessionCookie(Token(i)) : i \in 0..(nextTok - 1)}

\* gin runs the middleware for request r; when LoadAndSave calls
\* ginCtx.Next(), the route handler starts inside that call.
Serve(r) ==
    /\ phase[r] = "idle"
    /\ \E cookie \in CookieInputs, ok \in BOOLEAN :
          LET res == LoadAndSave(store, now, cookie, ok)
          IN /\ reqCookie' = [reqCookie EXCEPT ![r] = cookie]
             /\ phase' = [phase EXCEPT ![r] = res.phase]
             /\ ctx' = [ctx EXCEPT ![r] = res.sd]
             /\ header' = [header EXCEPT ![r].Vary = header[r].Vary \o res.vary]
             /\ errLog' = [errLog EXCEPT ![r] = errLog[r] \o res.errors]
             /\ nextCalls' = [nextCalls EXCEPT ![r] = nextCalls[r] + res.next]
             /\ loadCalls' = [loadCalls EXCEPT ![r] = loadCalls[r] + res.loads]
             /\ handlerCalls' = [handlerCalls EXCEPT ![r] = handlerCalls[r] + res.next]
    /\ UNCHANGED <<ga, store, nextTok, now, ncalls, last, hist>>

\* LoadAndSave has returned without calling ginCtx.Next() and without
\* ginCtx.Abort(): gin's handler chain goes on to the route handler, which
\* runs on the request's original context.
Dispatch(r) ==
    /\ phase[r] = "failed"
    /\ phase' = [phase EXCEPT ![r] = "handler"]
    /\ handlerCalls' = [handlerCalls EXCEPT ![r] = handlerCalls[r] + 1]
    /\ UNCHANGED <<ga, store, nextTok, now, ncalls, ctx, header, errLog, nextCalls,
                   loadCalls, reqCookie, last, hist>>

\* An adapter that keeps one session for all requests: an accessor call
\* replaces the session data of every request being handled.
Accessor_SharedSession(r, op, key, arg, w) ==
    /\ phase[r] = "handler"
    /\ ncalls < MaxCalls
    /\ ncalls' = ncalls + 1
    /\ IF ctx[r] = NoSession
       THEN /\ phase' = [phase EXCEPT ![r] = "done"]
            /\ last' = [last EXCEPT ![r] = [n |-> last[r].n + 1, op |-> op,
                                            key |-> key, arg |-> arg, trace |-> <<>>,
                                            ret |-> NoError, val |-> Nil,
                                            panic |-> TRUE]]
            /\ UNCHANGED <<store, nextTok, ctx, header, hist>>
       ELSE /\ store' = w.store
            /\ nextTok' = w.next
            /\ ctx' = [q \in Requests |-> IF ctx[q] = NoSession THEN ctx[q] ELSE w.sd]
            /\ header' = [header EXCEPT ![r] = w.hdr]
            /\ last' = [last EXCEPT ![r] = [n |-> last[r].n + 1, op |-> op,
                                            key |-> key, arg |-> arg,
                                            trace |-> w.trace, ret |-> w.ret,
                                            val |-> w.val, panic |-> FALSE]]
            /\ hist' = [hist EXCEPT ![r] = History(hist[r], op, key, arg, w.trace)]
            /\ UNCHANGED phase
    /\ UNCHANGED <<ga, now, errLog, nextCalls, loadCalls, handlerCalls, reqCookie>>

\* The handler of request r calls an accessor, which leaves the world w.  On
\* a context without session data the session manager panics in the
\* accessor's first call and the handler ends.
Accessor(r, op, key, arg, w) ==
    /\ phase[r] = "handler"
    /\ ncalls < MaxCalls
    /\ ncalls' = ncalls + 1
    /\ IF ctx[r] = NoSession
       THEN /\ phase' = [phase EXCEPT ![r] = "done"]
            /\ last' = [last EXCEPT ![r] = [n |-> last[r].n + 1, op |-> op,
                                            key |-> key, arg |-> arg, trace |-> <<>>,
                                            ret |-> NoError, val |-> Nil,
                                            panic |-> TRUE]]
            /\ UNCHANGED <<store, nextTok, ctx, header, hist>>
       ELSE /\ store' = w.store
            /\ nextTok' = w.next
            /\ ctx' = [ctx EXCEPT ![r] = w.sd]
            /\ header' = [header EXCEPT ![r] = w.hdr]
            /\ last' = [last EXCEPT ![r] = [n |-> last[r].n + 1, op |-> op,
                                            key |-> key, arg |-> arg,
                                            trace |-> w.trace, ret |-> w.ret,
                                            val |-> w.val, panic |-> FALSE]]
            /\ hist' = [hist EXCEPT ![r] = History(hist[r], op, key, arg, w.trace)]
            /\ UNCHANGED phase
    /\ UNCHANGED <<ga, now, errLog, nextCalls, loadCalls, handlerCalls, reqCookie>>

CallPut(r) ==
    \E key \in Keys, s \in Strings, ok \in BOOLEAN :
        Accessor(r, "Put", key, StringVal(s), Put(World(r), key, StringVal(s), ok))

CallGet(r) ==
    \E key \in Keys, ok \in BOOLEAN :
        Accessor(r, "Get", key, Nil, Get(World(r), key, ok))

CallRemove(r) ==
    \E key \in Keys, ok \in BOOLEAN :
        Accessor(r, "Remove", key, Nil, Remove(World(r), key, ok))

CallDestroy(r) ==
    \E ok \in BOOLEAN :
        Accessor(r, "Destroy", "", Nil, Destroy(World(r), ok))

CallRenewToken(r) ==
    \E delOk \in BOOLEAN, genOk \in BOOLEAN, ok \in BOOLEAN :
        Accessor(r, "RenewToken", "", Nil, RenewToken(World(r), delOk, genOk, ok))

CallRememberMe(r) ==
    \E b \in BOOLEAN, ok \in BOOLEAN :
        Accessor(r, "RememberMe", "", BoolVal(b), RememberMe(World(r), b, ok))

CallGetString(r) ==
    \E key \in Keys, ok \in BOOLEAN :
        Accessor(r, "GetString", key, Nil, GetString(World(r), key, ok))

\* LoadAndSave committing and writing the cookie after ginCtx.Next() returns,
\* as the session manager's own middleware does.
HandlerReturn_Commits(r) ==
    /\ phase[r] = "handler"
    /\ phase' = [phase EXCEPT ![r] = "done"]
    /\ IF ctx[r] = NoSession
       THEN UNCHANGED <<store, nextTok, ctx, header>>
       ELSE \E ok \in BOOLEAN :
               LET w1 == smCommit(World(r), ok)
                   w == IF w1.err # NoError THEN w1
                        ELSE smWriteSessionCookie(w1, w1.tok, w1.exp)
               IN /\ store' = w.store
                  /\ nextTok' = w.next
                  /\ ctx' = [ctx EXCEPT ![r] = w.sd]
                  /\ header' = [header EXCEPT ![r] = w.hdr]
    /\ UNCHANGED <<ga, now, ncalls, errLog, nextCalls, loadCalls, handlerCalls,
                   reqCookie, last, hist>>

\* The handler returns: ginCtx.Next() returns and LoadAndSave ends.
HandlerReturn(r) ==
    /\ phase[r] = "handler"
    /\ phase' = [phase EXCEPT ![r] = "done"]
    /\ UNCHANGED <<ga, store, nextTok, now, ncalls, ctx, header, errLog, nextCalls,
                   loadCalls, handlerCalls, reqCookie, last, hist>>

\* The response of request r has been sent; the next request arrives.
NextRequest(r) ==
    /\ phase[r] = "done"
    /\ phase' = [phase EXCEPT ![r] = "idle"]
    /\ ctx' = [ctx EXCEPT ![r] = NoSession]
    /\ header' = [header EXCEPT ![r] = [SetCookie |-> <<>>, Vary |-> <<>>]]
    /\ errLog' = [errLog EXCEPT ![r] = <<>>]
    /\ nextCalls' = [nextCalls EXCEPT ![r] = 0]
    /\ loadCalls' = [loadCalls EXCEPT ![r] = 0]
    /\ handlerCalls' = [handlerCalls EXCEPT ![r] = 0]
    /\ reqCookie' = [reqCookie EXCEPT ![r] = NoCookie]
    /\ last' = [last EXCEPT ![r] = NoCall]
    /\ hist' = [hist EXCEPT ![r] = NoHistory]
    /\ UNCHANGED <<ga, store, nextTok, now, ncalls>>

\* No request is being served.
Quiet == \A r \in Requests : phase[r] = "idle"

\* Time passes between requests.
Tick ==
    /\ Quiet
    /\ now < 1 + MaxTicks
    /\ now' = now + 1
    /\ UNCHANGED <<ga, store, nextTok, ncalls, phase, ctx, header, errLog,
                   nextCalls, loadCalls, handlerCalls, reqCookie, last, hist>>

\* The requests Spec serves: one after another.
Serial == {"r1"}

Next ==
    \/ \E r \in Serial : Serve(r)
    \/ \E r \in Serial : Dispatch(r)
    \/ \E r \in Serial : CallGet(r)
    \/ \E r \in Serial : CallPut(r)
    \/ \E r \in Serial : CallRemove(r)
    \/ \E r \in Serial : CallDestroy(r)
    \/ \E r \in Serial : CallRenewToken(r)
    \/ \E r \in Serial : CallRememberMe(r)
    \/ \E r \in Serial : CallGetString(r)
    \/ \E r \in Serial : HandlerReturn(r)
    \/ \E r \in Serial : NextRequest(r)
    \/ Tick

Spec == Init /\ [][Next]_vars

\* Simultaneous requests on one adapter.  The store already holds a session
\* with "foo" = "bar", committed by an earlier request (Serve, Put, return).
InitConc ==
    /\ store = StorePut(<<>>, Token(1),
                        [values |-> [NoValues EXCEPT !["foo"] = StringVal("bar")],
                         deadline |-> 1 + Lifetime])
    /\ nextTok = 2
    /\ now = 1
    /\ ncalls = 0
    /\ phase = [r \in Requests |-> "idle"]
    /\ ctx = [r \in Requests |-> NoSession]
    /\ header = [r \in Requests |-> [SetCookie |-> <<>>, Vary |-> <<>>]]
    /\ errLog = [r \in Requests |-> <<>>]
    /\ nextCalls = [r \in Requests |-> 0]
    /\ loadCalls = [r \in Requests |-> 0]
    /\ handlerCalls = [r \in Requests |-> 0]
    /\ reqCookie = [r \in Requests |-> NoCookie]
    /\ last = [r \in Requests |-> NoCall]
    /\ hist = [r \in Requests |-> NoHistory]
    /\ ga = [sm |-> "sessionManager"]

\* gin serves each request on its own goroutine: the steps of the requests
\* interleave, with at most MaxConcCalls accessor calls in all.
NextConc ==
    \/ \E r \in Requests : Serve(r)
    \/ \E r \in Requests : Dispatch(r)
    \/ \E r \in Requests : ncalls < MaxConcCalls /\ CallGet(r)
    \/ \E r \in Requests : ncalls < MaxConcCalls /\ CallPut(r)
    \/ \E r \in Requests : ncalls < MaxConcCalls /\ CallRemove(r)
    \/ \E r \in Requests : ncalls < MaxConcCalls /\ CallDestroy(r)
    \/ \E r \in Requests : ncalls < MaxConcCalls /\ CallRenewToken(r)
    \/ \E r \in Requests : ncalls < MaxConcCalls /\ CallRememberMe(r)
    \/ \E r \in Requests : ncalls < MaxConcCalls /\ CallGetString(r)
    \/ \E r \in Requests : HandlerReturn(r)

SpecConc == InitConc /\ [][NextConc]_vars

\* ------------------------------------------------------------- claims

SetCookies(r) == header[r].SetCookie
LastSetCookie(r) == SetCookies(r)[Len(SetCookies(r))]
IsClearing(c) == c.value = EmptyToken /\ c.expiry = ZeroTime

\* The accessors that commit and write the cookie unconditionally.
CookieOps == {"Put", "Remove", "RememberMe", "GetString"}
MutatingOps == CookieOps \cup {"Get", "Destroy", "RenewToken"}

\* This step is request r's handler calling an accessor that returns.
Returns(r) == last'[r].n = last[r].n + 1 /\ ~last'[r].panic

\* C1: after a mutating accessor (Put, Remove, Destroy, RenewToken,
\* RememberMe, Get, GetString) has returned without error, the last Set-Cookie
\* header of the response carries the session's current token and expiry, or
\* the clearing value (empty token, zero expiry) if the session is destroyed.
C1_CookieReflectsSession ==
    \A r \in Requests :
        (last[r].op \in MutatingOps /\ ~last[r].panic /\ last[r].ret = NoError)
        => /\ Len(SetCookies(r)) > 0
           /\ IF ctx[r].status = "Destroyed"
              THEN IsClearing(LastSetCookie(r))
              ELSE /\ LastSetCookie(r).value = ctx[r].token
                   /\ LastSetCookie(r).expiry = ctx[r].deadline

\* C2: a call of Put, Remove, RememberMe, GetString or a successful RenewToken
\* calls the session manager in the order: the named operation, Commit,
\* WriteSessionCookie with the token and expiry that Commit returned, which
\* becomes the response's last Set-Cookie header; and when the handler
\* returns, nothing is committed and no header is written any more.
C2_CommitThenCookie ==
    [][\A r \in Requests :
        /\ (Returns(r) /\ (\/ last'[r].op \in CookieOps
                           \/ last'[r].op = "RenewToken" /\ last'[r].ret = NoError))
           => LET t == last'[r].trace
              IN /\ Len(t) = 3
                 /\ t[1].call = last'[r].op
                 /\ t[1].err = NoError
                 /\ t[2].call = "Commit"
                 /\ t[3].call = "WriteSessionCookie"
                 /\ t[3].tok = t[2].tok
                 /\ t[3].exp = t[2].exp
                 /\ Len(SetCookies(r)') = Len(SetCookies(r)) + 1
                 /\ LastSetCookie(r)'.value = t[2].tok
                 /\ LastSetCookie(r)'.expiry = t[2].exp
        /\ (phase[r] = "handler" /\ phase'[r] = "done")
           => /\ store' = store
              /\ header' = header
              /\ ctx' = ctx ]_vars

\* A successful RenewToken has committed a new token and written it, and the
\* handler has returned.
C2_Witness ==
    \E r \in Requests :
        /\ phase[r] = "done"
        /\ last[r].op = "RenewToken"
        /\ last[r].ret = NoError
        /\ Len(last[r].trace) = 3
        /\ last[r].trace[2].err = NoError
        /\ LastSetCookie(r).value = last[r].trace[2].tok
        /\ last[r].trace[2].tok # EmptyToken

\* C3: when sm.Load fails in LoadAndSave, the error handler is called exactly
\* once, with that error; the next handler is never called for the request,
\* Load is not retried, the request's context is not replaced and no accessor
\* runs.
C3_LoadFailureTerminal ==
    \A r \in Requests :
        errLog[r] # <<>>
        => /\ errLog[r] = <<StoreError>>
           /\ loadCalls[r] = 1
           /\ nextCalls[r] = 0
           /\ handlerCalls[r] = 0
           /\ ctx[r] = NoSession
           /\ last[r] = NoCall

\* C4: when sm.Destroy or sm.RenewToken fails, the accessor returns a non-nil
\* error, calls neither Commit nor WriteSessionCookie, and leaves the
\* response's headers as they were.
C4_FailureLeavesCookie ==
    [][\A r \in Requests :
        (/\ Returns(r)
         /\ last'[r].op \in {"Destroy", "RenewToken"}
         /\ last'[r].trace[1].err # NoError)
        => /\ last'[r].ret = last'[r].trace[1].err
           /\ last'[r].ret # NoError
           /\ Len(last'[r].trace) = 1
           /\ header'[r] = header[r] ]_vars

\* RenewToken has failed after an earlier accessor wrote a cookie, which is
\* still the response's only one.
C4_Witness ==
    \E r \in Requests :
        /\ last[r].op = "RenewToken"
        /\ last[r].ret = StoreError
        /\ last[r].n = 2
        /\ Len(SetCookies(r)) = 1
        /\ LastSetCookie(r).value = ctx[r].token
        /\ ctx[r].token # EmptyToken

\* C5: when sm.Destroy succeeds, Destroy returns nil, the session's entry is
\* gone from the store and no entry is added (Destroy does not commit), and
\* the cookie Destroy adds is the clearing one (empty token, zero expiry).
C5_DestroyClears ==
    [][\A r \in Requests :
        (/\ Returns(r)
         /\ last'[r].op = "Destroy"
         /\ last'[r].trace[1].err = NoError)
        => /\ last'[r].ret = NoError
           /\ ctx[r].token \notin DOMAIN store'
           /\ DOMAIN store' = DOMAIN store \ {ctx[r].token}
           /\ \A i \in 1..Len(last'[r].trace) : last'[r].trace[i].call # "Commit"
           /\ Len(last'[r].trace) = 2
           /\ last'[r].trace[2] = Call("WriteSessionCookie", EmptyToken, ZeroTime, NoError)
           /\ SetCookies(r)' = Append(SetCookies(r),
                    [value |-> EmptyToken, expiry |-> ZeroTime, persistent |-> FALSE])
           /\ IsClearing(LastSetCookie(r)') ]_vars

\* The first call of a handler destroyed the session loaded from the
\* request's cookie, whose store entry is gone.
C5_Witness ==
    \E r \in Requests :
        /\ last[r].op = "Destroy"
        /\ ~last[r].panic
        /\ last[r].n = 1
        /\ last[r].ret = NoError
        /\ reqCookie[r].present
        /\ reqCookie[r].value # EmptyToken
        /\ last[r].trace[1].tok = reqCookie[r].value
        /\ reqCookie[r].value \notin DOMAIN store
        /\ IsClearing(LastSetCookie(r))

\* The calls of Commit and WriteSessionCookie in a trace.
RECURSIVE TokenCalls(_)
TokenCalls(trace) ==
    IF trace = <<>> THEN {}
    ELSE (IF Head(trace).call \in {"Commit", "WriteSessionCookie"}
          THEN {Head(trace)} ELSE {}) \cup TokenCalls(Tail(trace))

CookieWrites(trace) == {c \in TokenCalls(trace) : c.call = "WriteSessionCookie"}
Commits(trace) == {c \in TokenCalls(trace) : c.call = "Commit"}

\* The non-empty tokens of the sessions request r has destroyed.
Destroyed(h) == h.destroyed \ {EmptyToken}

\* C6 as stated, for requests none of whose calls into the session manager
\* failed: after a successful Destroy, a further accessor call in the request
\* is not refused, and every cookie it writes carries a new token: not the
\* empty one and not a destroyed one; no commit or cookie write of the request
\* carries a destroyed token again.
C6_NewTokenAfterDestroy ==
    [][\A r \in Requests :
        (last'[r].n = last[r].n + 1 /\ hist[r].destroyed # {} /\ ~hist'[r].failed)
        => /\ ~last'[r].panic
           /\ \A c \in TokenCalls(last'[r].trace) : c.tok \notin Destroyed(hist'[r])
           /\ \A c \in CookieWrites(last'[r].trace) : c.tok # EmptyToken ]_vars

\* C6 amended: after a successful Destroy, a further accessor call in the
\* request is not refused and acts on a new session; every cookie it writes
\* carries the new session's committed token or the empty token (a further
\* Destroy, a failed Commit), and no commit or cookie write of the request, nor the
\* session itself, carries a destroyed token again.
C6_NoReuse ==
    [][\A r \in Requests :
        /\ (last'[r].n = last[r].n + 1 /\ hist[r].destroyed # {})
           => /\ ~last'[r].panic
              /\ last'[r].trace # <<>>
              /\ last'[r].trace[1].call = last'[r].op
              /\ \A c \in CookieWrites(last'[r].trace) :
                    \/ c.tok = EmptyToken
                    \/ /\ c.tok = ctx'[r].token
                       /\ c.tok \in DOMAIN store'
        /\ Returns(r)
           => /\ \A c \in TokenCalls(last'[r].trace) : c.tok \notin Destroyed(hist'[r])
              /\ ctx'[r].token \notin Destroyed(hist'[r]) ]_vars

\* A session loaded from the store was destroyed, and a later Put of the same
\* handler wrote the cookie of a new session.
C6_Witness ==
    \E r \in Requests :
        /\ last[r].op = "Put"
        /\ Destroyed(hist[r]) # {}
        /\ reqCookie[r].value \in Destroyed(hist[r])
        /\ LastSetCookie(r).value # EmptyToken
        /\ LastSetCookie(r).value \notin Destroyed(hist[r])
        /\ LastSetCookie(r).value \in DOMAIN store

\* C7 as stated, for requests none of whose calls into the session manager
\* failed: once the handler's accessor calls have committed and written a
\* cookie, the response carries exactly one Set-Cookie header, with the token
\* and expiry of the last successful commit.
C7_OneFinalSetCookie ==
    \A r \in Requests :
        (/\ last[r].n > 0 /\ ~last[r].panic /\ ~hist[r].failed
         /\ hist[r].commit # NoCommit /\ SetCookies(r) # <<>>)
        => /\ Len(SetCookies(r)) = 1
           /\ LastSetCookie(r).value = hist[r].commit.tok
           /\ LastSetCookie(r).expiry = hist[r].commit.exp

\* C7 amended: each call of Put, Remove, RememberMe, GetString, each
\* successful RenewToken and each successful Destroy adds one Set-Cookie
\* header, and no other call adds or changes one; the header added (the
\* response's last) carries the token and expiry this call's Commit returned,
\* those of the last successful commit when it succeeded and the empty token
\* and zero expiry when it failed, or the clearing value when the call is
\* Destroy.
C7_LastCookieWrite ==
    [][\A r \in Requests :
        Returns(r)
        => LET t == last'[r].trace
               writes == (last'[r].op \in CookieOps
                          \/ (last'[r].op \in {"RenewToken", "Destroy"}
                              /\ last'[r].ret = NoError))
           IN IF ~writes THEN header'[r] = header[r]
              ELSE /\ Len(SetCookies(r)') = Len(SetCookies(r)) + 1
                   /\ SubSeq(SetCookies(r)', 1, Len(SetCookies(r))) = SetCookies(r)
                   /\ header'[r].Vary = header[r].Vary
                   /\ IF last'[r].op = "Destroy"
                      THEN IsClearing(LastSetCookie(r)')
                      ELSE \E c \in Commits(t) :
                             /\ Commits(t) = {c}
                             /\ LastSetCookie(r)'.value = c.tok
                             /\ LastSetCookie(r)'.expiry = c.exp
                             /\ IF c.err = NoError
                                THEN /\ hist'[r].commit = c
                                     /\ c.tok = ctx'[r].token
                                     /\ c.exp = ctx'[r].deadline
                                ELSE /\ IsClearing(LastSetCookie(r)')
                                     /\ hist'[r].commit = hist[r].commit ]_vars

\* Two calls wrote two Set-Cookie headers, and the last one, a Destroy's, is
\* not the last successful commit's.
C7_Witness ==
    \E r \in Requests :
        /\ last[r].op = "Destroy"
        /\ ~last[r].panic
        /\ last[r].ret = NoError
        /\ Len(SetCookies(r)) = 2
        /\ hist[r].commit # NoCommit
        /\ SetCookies(r)[1].value = hist[r].commit.tok
        /\ IsClearing(LastSetCookie(r))

\* C8: when two successive accessor calls of a request both commit and write
\* the cookie and neither is RenewToken or Destroy, the second writes the
\* token the first wrote; a Put repeated with the same key and value leaves
\* the cookie token and the stored session data as they were.
C8_TokenStable ==
    [][\A r \in Requests :
        (/\ Returns(r)
         /\ last[r].op \in CookieOps
         /\ ~last[r].panic
         /\ last'[r].op \in CookieOps)
        => /\ LastSetCookie(r)'.value = LastSetCookie(r).value
           /\ (/\ last[r].op = "Put" /\ last'[r].op = "Put"
               /\ last'[r].key = last[r].key /\ last'[r].arg = last[r].arg)
              => ctx'[r].values = ctx[r].values ]_vars

\* C9: a successful RenewToken keeps the session's values and changes its
\* token; the old token's store entry is deleted; the cookie RenewToken
\* writes does not carry the old token, and carries the new one when the
\* commit succeeded; and after Put(k, v), a successful RenewToken and then
\* Get(k), Get returns v.
C9_RenewKeepsData ==
    [][\A r \in Requests :
        /\ (Returns(r) /\ last'[r].op = "RenewToken" /\ last'[r].ret = NoError)
           => /\ ctx'[r].values = ctx[r].values
              /\ ctx'[r].token # ctx[r].token
              /\ ctx'[r].token # EmptyToken
              /\ ctx[r].token # EmptyToken
                 => /\ ctx[r].token \notin DOMAIN store'
                    /\ LastSetCookie(r)'.value # ctx[r].token
              /\ last'[r].trace[2].err = NoError
                 => /\ LastSetCookie(r)'.value = ctx'[r].token
                    /\ store'[ctx'[r].token].values = ctx[r].values
        /\ (/\ Returns(r) /\ last'[r].op = "Get"
            /\ last[r].op = "RenewToken" /\ last[r].ret = NoError /\ ~last[r].panic
            /\ hist[r].put # NoPut
            /\ last'[r].key = hist[r].put.key)
           => last'[r].val = hist[r].put.val ]_vars

\* Put("foo", "bar"), RenewToken, Get("foo") returned "bar": the two cookies
\* carry different tokens and only the second is in the store.
C9_Witness ==
    \E r \in Requests :
        /\ last[r].n = 3
        /\ last[r].op = "Get"
        /\ ~last[r].panic
        /\ hist[r].put = [key |-> "foo", val |-> StringVal("bar")]
        /\ last[r].val = StringVal("bar")
        /\ Len(SetCookies(r)) = 2
        /\ SetCookies(r)[1].value # EmptyToken
        /\ SetCookies(r)[2].value # EmptyToken
        /\ SetCookies(r)[1].value # SetCookies(r)[2].value
        /\ SetCookies(r)[1].value \notin DOMAIN store
        /\ SetCookies(r)[2].value \in DOMAIN store
        /\ store[SetCookies(r)[2].value].values["foo"] = StringVal("bar")

\* A request being handled that came without a session cookie.
NoCookieRequest(r) == phase[r] \in {"handler", "done"} /\ ~reqCookie[r].present

\* What C10 says of the load of a request without a session cookie.
FreshlyLoaded(r) ==
    /\ errLog[r] = <<>>
    /\ loadCalls[r] = 1
    /\ nextCalls[r] = 1
    /\ handlerCalls[r] = 1
    /\ header[r].Vary = <<"Cookie">>
    /\ last[r].n = 0
       => /\ ctx[r].status = "Unmodified"
          /\ ctx[r].token = EmptyToken
          /\ ctx[r].values = NoValues
          /\ ctx[r].deadline # ZeroTime
          /\ SetCookies(r) = <<>>

Getters == {"Get", "GetString"}
ValueRead(op, sd, key) ==
    IF op = "Get" \/ sd.values[key].t = "string" THEN sd.values[key] ELSE StringVal("")

\* C11: a getter (Get, GetString) returns the value read from the session and
\* also commits and writes the cookie: one Commit, then one WriteSessionCookie
\* that adds a Set-Cookie header, as the mutating accessors do.
C11_GettersCommitAndWrite ==
    [][\A r \in Requests :
        (Returns(r) /\ last'[r].op \in Getters)
        => /\ last'[r].val = ValueRead(last'[r].op, ctx[r], last'[r].key)
           /\ Cardinality(Commits(last'[r].trace)) = 1
           /\ Cardinality(CookieWrites(last'[r].trace)) = 1
           /\ Len(SetCookies(r)') = Len(SetCookies(r)) + 1 ]_vars

\* The accessors that drop the error of their Commit and return no error.
SwallowOps == {"Put", "Remove", "Get", "GetString", "RememberMe"}

\* The errors of the Commits in a trace.
CommitErrors(trace) == {c.err : c \in Commits(trace)}

\* C12: when Commit fails in Put, Remove, Get, GetString or RememberMe, the
\* accessor returns normally with no error, a getter returns the value it
\* read, the error handler is not called and Commit is called once only.
C12_CommitErrorSwallowed ==
    [][\A r \in Requests :
        (/\ Returns(r)
         /\ last'[r].op \in SwallowOps
         /\ StoreError \in CommitErrors(last'[r].trace))
        => /\ last'[r].ret = NoError
           /\ last'[r].op \in Getters
              => last'[r].val = ValueRead(last'[r].op, ctx[r], last'[r].key)
           /\ errLog' = errLog
           /\ phase'[r] = "handler"
           /\ Len(SelectSeq(last'[r].trace, LAMBDA c : c.call = "Commit")) = 1
           /\ store' = store ]_vars

\* Get("foo") returned "bar" although its Commit failed.
C12_Witness ==
    \E r \in Requests :
        /\ last[r].op = "Get"
        /\ ~last[r].panic
        /\ last[r].ret = NoError
        /\ last[r].val = StringVal("bar")
        /\ StoreError \in CommitErrors(last[r].trace)
        /\ errLog[r] = <<>>


\* The steps of the middleware: LoadAndSave up to ginCtx.Next() or its return
\* (the request leaves "idle"), and the end of LoadAndSave after ginCtx.Next()
\* (the handler ends with no accessor step).
LoadStep(r) == phase[r] = "idle" /\ phase'[r] # "idle"
ReturnStep(r) == phase[r] = "handler" /\ phase'[r] = "done" /\ last'[r] = last[r]

\* The middleware commits nothing and writes no cookie.
MiddlewareFrame(r) ==
    /\ store' = store
    /\ nextTok' = nextTok
    /\ SetCookies(r)' = SetCookies(r)

C14_LoadedBeforeAccessor ==
    [][\A r \in Requests :
        /\ loadCalls'[r] <= 1
        /\ last'[r].n = last[r].n + 1
           => /\ loadCalls[r] = 1
              /\ errLog[r] = <<>>
              /\ ctx[r] # NoSession
              /\ ~last'[r].panic ]_vars


\* The step is an accessor call of request r.
AccessorStep(r) == last'[r].n = last[r].n + 1

\* What request q holds of its own: its session data, its response headers,
\* its position, its last call and its history.
Own(q) == <<ctx[q], header[q], phase[q], last[q], hist[q], errLog[q]>>

\* Request r is in its handler, with calls left to make, while another
\* request is in the middle of its handler and has called an accessor.
MidHandlerElsewhere(r) ==
    /\ phase[r] = "handler"
    /\ ncalls < MaxConcCalls
    /\ \E q \in Requests \ {r} : phase[q] = "handler" /\ last[q].n > 0

\* C15: under any interleaving of simultaneous requests on one adapter, an
\* accessor call of one request changes neither the session data another
\* request's getters read nor the other request's response headers; a getter
\* returns what its own request's session data holds; the adapter's session
\* manager reference never changes; an accessor of a request in its handler is
\* enabled while another request is in the middle of its own handler.
C15_RequestsIsolated ==
    /\ [](\A r \in Requests : MidHandlerElsewhere(r) => ENABLED CallDestroy(r))
    /\ [][/\ ga' = ga
          /\ \A r \in Requests :
               /\ AccessorStep(r) => \A q \in Requests \ {r} : Own(q)' = Own(q)
               /\ (Returns(r) /\ last'[r].op \in Getters)
                  => last'[r].val = ValueRead(last'[r].op, ctx[r], last'[r].key)
        ]_vars

\* Two requests being handled hold the same session; one has Put "baz" and
\* committed it, the other's Get then still returned the "bar" it had loaded.
C15_Witness ==
    \E r \in Requests, q \in Requests :
        /\ r # q
        /\ phase[r] = "handler" /\ phase[q] = "handler"
        /\ ctx[r] # NoSession /\ ctx[q] # NoSession
        /\ ctx[r].token = ctx[q].token
        /\ ctx[r].token \in DOMAIN store
        /\ last[r].op = "Put" /\ last[r].arg = StringVal("baz")
        /\ CommitErrors(last[r].trace) = {NoError}
        /\ last[q].op = "Get" /\ last[q].val = StringVal("bar")
        /\ CommitErrors(last[q].trace) = {NoError}
        /\ store[ctx[q].token].values["foo"] = StringVal("bar")


\* The names of the calls in a trace, in order.
CallNames(trace) == [i \in 1..Len(trace) |-> trace[i].call]

\* C16: Remove of a key absent from the session leaves the session's values
\* unchanged and returns no error, and still makes the calls Remove, Commit,
\* WriteSessionCookie and adds a Set-Cookie header, as Remove of a present key
\* does.
C16_RemoveAbsentKey ==
    [][\A r \in Requests :
        (Returns(r) /\ last'[r].op = "Remove")
        => /\ CallNames(last'[r].trace) = <<"Remove", "Commit", "WriteSessionCookie">>
           /\ Len(SetCookies(r)') = Len(SetCookies(r)) + 1
           /\ last'[r].ret = NoError
           /\ ctx'[r].values[last'[r].key] = Nil
           /\ ctx[r].values[last'[r].key] = Nil
              => /\ ctx'[r].values = ctx[r].values
                 /\ ctx'[r].status = ctx[r].status ]_vars

\* The first call of a request that came without a cookie, on a new and empty
\* session, was Remove("foo"): it committed the session and wrote its cookie.
C16_Witness ==
    \E r \in Requests :
        /\ ~reqCookie[r].present
        /\ last[r].n = 1
        /\ last[r].op = "Remove"
        /\ ~last[r].panic
        /\ Len(SetCookies(r)) = 1
        /\ LastSetCookie(r).value = ctx[r].token
        /\ ctx[r].token \in DOMAIN store
        /\ store[ctx[r].token].values = NoValues

\* The accessors that write the cookie after a failed Commit.
ClearingOps == {"Put", "Remove", "RememberMe", "GetString", "RenewToken"}

\* C17: when Commit fails inside Put, Remove, RememberMe, GetString or
\* RenewToken, the accessor still calls WriteSessionCookie with the empty
\* token and zero expiry Commit returned, so the response gets the clearing
\* cookie although the accessor did not destroy the session, which keeps its
\* token, and a store entry the accessor found is still there.
C17_ClearingCookieOnCommitFailure ==
    [][\A r \in Requests :
        (/\ Returns(r)
         /\ last'[r].op \in ClearingOps
         /\ StoreError \in CommitErrors(last'[r].trace))
        => LET t == last'[r].trace
           IN /\ t[Len(t) - 1] = Call("Commit", EmptyToken, ZeroTime, StoreError)
              /\ t[Len(t)] = Call("WriteSessionCookie", EmptyToken, ZeroTime, NoError)
              /\ SetCookies(r)' = Append(SetCookies(r), LastSetCookie(r)')
              /\ IsClearing(LastSetCookie(r)')
              /\ ctx'[r].status = "Destroyed" => ctx[r].status = "Destroyed"
              /\ ctx'[r].token # EmptyToken
              /\ last'[r].op # "RenewToken"
                 => /\ store' = store
                    /\ ctx[r].token # EmptyToken => ctx'[r].token = ctx[r].token ]_vars

\* Put on a stored session: its Commit failed, the clearing cookie was
\* written, and the session's entry is still in the store.
C17_Witness ==
    \E r \in Requests :
        /\ last[r].op = "Put"
        /\ ~last[r].panic
        /\ StoreError \in CommitErrors(last[r].trace)
        /\ IsClearing(LastSetCookie(r))
        /\ ctx[r].token \in DOMAIN store
        /\ reqCookie[r].value = ctx[r].token

\* C18: RenewToken returns a non-nil error exactly when sm.RenewToken failed,
\* and then neither commits nor writes; the error of the Commit after a
\* successful renewal is not returned, and then RenewToken returns nil while
\* the session's new token has no store entry.
C18_RenewTokenError ==
    [][\A r \in Requests :
        (Returns(r) /\ last'[r].op = "RenewToken")
        => LET t == last'[r].trace
           IN /\ t[1].call = "RenewToken"
              /\ last'[r].ret = t[1].err
              /\ last'[r].ret # NoError <=> t[1].err # NoError
              /\ t[1].err # NoError => Len(t) = 1
              /\ (t[1].err = NoError /\ StoreError \in CommitErrors(t))
                 => /\ last'[r].ret = NoError
                    /\ ctx'[r].token # ctx[r].token
                    /\ ctx'[r].token \notin DOMAIN store'
                    /\ ctx[r].token \notin DOMAIN store' ]_vars

\* After a Put that was committed, RenewToken returned nil although its
\* Commit failed: neither the committed token nor the new one is in the store.
C18_Witness ==
    \E r \in Requests :
        /\ last[r].op = "RenewToken"
        /\ ~last[r].panic
        /\ last[r].n = 2
        /\ last[r].ret = NoError
        /\ StoreError \in CommitErrors(last[r].trace)
        /\ hist[r].put # NoPut
        /\ hist[r].commit # NoCommit
        /\ last[r].trace[1].tok = ctx[r].token
        /\ hist[r].commit.tok # ctx[r].token
        /\ hist[r].commit.tok \notin DOMAIN store
        /\ ctx[r].token \notin DOMAIN store

\* C19: every token a Commit persists to the store during a request is
\* communicated to the client: each successful Commit is followed, before the
\* accessor returns, by a cookie write carrying that token, which becomes a
\* Set-Cookie header of the response.
C19_CommittedTokenWritten ==
    [][\A r \in Requests :
        Returns(r)
        => \A c \in Commits(last'[r].trace) :
              c.err = NoError
              => /\ \E wc \in CookieWrites(last'[r].trace) : wc.tok = c.tok
                 /\ \E i \in 1..Len(SetCookies(r)') : SetCookies(r)'[i].value = c.tok ]_vars

====
